---- MODULE Spec2Model ----
(***************************************************************************)
(* A model of the deploy-requests service of planetscale-go                *)
(* (src/planetscale/deploy_requests.go) and of the branch-password         *)
(* exchanges exercised by src/planetscale/passwords_test.go.               *)
(*                                                                         *)
(* A Go string that is built or taken apart is a sequence of pieces of     *)
(* text (a literal of the source is one piece, a digit is one piece), so   *)
(* that Sprintf is concatenation.  A JSON object is a set of <<key, value>>*)
(* pairs; decoding picks the keys the target struct declares and leaves    *)
(* the zero value for the others.                                          *)
(***************************************************************************)
EXTENDS Integers, Sequences, FiniteSets, TLC

VARIABLES
    client,     \* the *Client shared by the service: its transport configuration
    calls,      \* per caller: the deploy-request call in progress
    drs,        \* the remote server: deploy request number -> lifecycle state
    mon,        \* per caller: progress through a Get, Close, Get sequence
    pin,        \* inputs of the path builders
    pout,       \* outputs of the path builders
    pwStore,    \* the remote server: password id -> secret (or "absent")
    pwLast,     \* the last result a Passwords call returned to its caller
    pwReveals   \* password id -> number of times its plaintext reached a caller

vars == <<client, calls, drs, mon, pin, pout, pwStore, pwLast, pwReveals>>

mainVars == <<client, calls, drs, mon>>
pathVars == <<pin, pout>>
pwVars == <<pwStore, pwLast, pwReveals>>

(***************************************************************************)
(* Bounds.                                                                 *)
(***************************************************************************)
\* deploy request numbers the server can hold: 1..MaxDR
MaxDR == 1
\* numbers given to the path builders: 0..MaxNumber (one and two digits)
MaxNumber == 12
\* password ids: 1..MaxPw
MaxPw == 3

\* the concurrent callers sharing one service object
Callers == {"c1", "c2"}
Numbers == 1..MaxDR
PwIds == 1..MaxPw

(***************************************************************************)
(* Strings.                                                                *)
(***************************************************************************)
Slash == <<"/">>
DeployRequestsLit == <<"deploy-requests">>
DeployLit == <<"deploy">>
CancelLit == <<"cancel">>
ReviewsLit == <<"reviews">>

Digits == <<"0","1","2","3","4","5","6","7","8","9">>

\* fmt's %d of a uint64: the decimal digits, most significant first
RECURSIVE FormatUint(_)
FormatUint(n) ==
    IF n < 10 THEN <<Digits[n + 1]>>
    ELSE FormatUint(n \div 10) \o <<Digits[(n % 10) + 1]>>

\* the organizations and databases callers name; "%" is not a valid URL escape
Orgs == {<<"my-org">>, <<"%">>}
Dbs == {<<"my-db">>}
PathOrgs == {<<"o">>, <<"my", "-", "org">>}
PathDbs == {<<"d">>, <<"my", "-", "db">>}
Verbs == {DeployLit, CancelLit, ReviewsLit}

(***************************************************************************)
(* Path builders.                                                          *)
(***************************************************************************)
\* the databases collection of an organization
databasesAPIPath(org) == org

deployRequestsAPIPath(org, db) ==
    databasesAPIPath(org) \o Slash \o db \o Slash \o DeployRequestsLit

deployRequestAPIPathNoSep(org, db, number) ==
    databasesAPIPath(org) \o Slash \o db \o Slash \o DeployRequestsLit
        \o FormatUint(number)

deployRequestAPIPath(org, db, number) ==
    databasesAPIPath(org) \o Slash \o db \o Slash \o DeployRequestsLit
        \o Slash \o FormatUint(number)

deployRequestActionAPIPath(org, db, number, path) ==
    deployRequestAPIPath(org, db, number) \o Slash \o path

(***************************************************************************)
(* Errors.  An error value is its origin and the prefixes wrapped around   *)
(* it, outermost first; NilErr is Go's nil error.                          *)
(***************************************************************************)
NilErr == [kind |-> "nil", wraps |-> <<>>]
NewRequestErr == [kind |-> "newRequest", wraps |-> <<>>]
TransportErr == [kind |-> "transport", wraps |-> <<>>]
APIErr == [kind |-> "api", wraps |-> <<>>]
DecodeErr == [kind |-> "decode", wraps |-> <<>>]

\* errors.Wrap(err, message): nil stays nil, otherwise message is prefixed
Wrap(err, message) ==
    IF err = NilErr THEN NilErr ELSE [err EXCEPT !.wraps = <<message>> \o @]

HttpRequestMsg == "error creating http request"
HttpSendMsg == "error sending http request"

(***************************************************************************)
(* JSON.                                                                   *)
(***************************************************************************)
\* the value of key k in object o, or zero when o has no such key
Field(o, k, zero) ==
    IF \E p \in o : p[1] = k THEN (CHOOSE p \in o : p[1] = k)[2] ELSE zero

NoBody == [present |-> FALSE, fields |-> {}]
JSONBody(fields) == [present |-> TRUE, fields |-> fields]

\* a response body: a JSON object, a list envelope {"data": ...}, the JSON
\* document null, or bytes that are not JSON
ObjectBody(o) == [shape |-> "object", fields |-> o, data |-> "absent", items |-> <<>>]
EnvelopeBody(data, items) == [shape |-> "envelope", fields |-> {}, data |-> data, items |-> items]
NullBody == [shape |-> "null", fields |-> {}, data |-> "absent", items |-> <<>>]
GarbageBody == [shape |-> "garbage", fields |-> {}, data |-> "absent", items |-> <<>>]
\* no response at all
NoResp == [shape |-> "none", fields |-> {}, data |-> "absent", items |-> <<>>]

\* the fields of DeployRequest the model follows, by their json tags
ZeroDeployRequest == [Number |-> 0, State |-> "", DeploymentState |-> ""]

DeployRequestOf(o) ==
    [Number |-> Field(o, "number", 0),
     State |-> Field(o, "state", ""),
     DeploymentState |-> Field(o, "deployment_state", "")]

ZeroReview == [ID |-> "", Body |-> "", State |-> ""]

ReviewOf(o) ==
    [ID |-> Field(o, "id", ""),
     Body |-> Field(o, "body", ""),
     State |-> Field(o, "state", "")]

\* json.NewDecoder(res.Body).Decode(dr) with dr a *DeployRequest: unknown keys
\* are skipped, null leaves the struct as it is, non-JSON is an error
DecodeDeployRequest(body) ==
    CASE body.shape = "garbage" -> [ok |-> FALSE, val |-> ZeroDeployRequest]
      [] body.shape = "object" -> [ok |-> TRUE, val |-> DeployRequestOf(body.fields)]
      [] OTHER -> [ok |-> TRUE, val |-> ZeroDeployRequest]

\* Decode(drr) with drr a *DeployRequestReview
DecodeReview(body) ==
    CASE body.shape = "garbage" -> [ok |-> FALSE, val |-> ZeroReview]
      [] body.shape = "object" -> [ok |-> TRUE, val |-> ReviewOf(body.fields)]
      [] OTHER -> [ok |-> TRUE, val |-> ZeroReview]

DecodeItems(items) == [i \in 1..Len(items) |-> DeployRequestOf(items[i])]

\* Decode(&deployRequests) with deployRequests a *deployRequestsResponse: the
\* decoder is handed a pointer to the pointer, so the document null sets the
\* pointer itself to nil; a null or missing "data" leaves the slice nil
DecodeList(body) ==
    CASE body.shape = "garbage" -> [ok |-> FALSE, ptrNil |-> FALSE, sliceNil |-> TRUE, items |-> <<>>]
      [] body.shape = "null" -> [ok |-> TRUE, ptrNil |-> TRUE, sliceNil |-> TRUE, items |-> <<>>]
      [] body.shape = "envelope" /\ body.data = "array" ->
            [ok |-> TRUE, ptrNil |-> FALSE, sliceNil |-> FALSE, items |-> DecodeItems(body.items)]
      [] OTHER -> [ok |-> TRUE, ptrNil |-> FALSE, sliceNil |-> TRUE, items |-> <<>>]

(***************************************************************************)
(* The client.                                                             *)
(***************************************************************************)
\* the client as constructed: NewClient(WithBaseURL(ts.URL))
NewClient == [base |-> <<"h">>]

NoReq == [method |-> "", base |-> <<>>, path |-> <<>>, body |-> NoBody]

HasChar(s, ch) == \E i \in 1..Len(s) : s[i] = ch

\* client.newRequest(method, path, body): resolves path against the base URL
\* and encodes the body; a path that is not a valid URL reference is rejected
newRequest(cl, method, path, body) ==
    IF HasChar(path, "%")
    THEN [err |-> NewRequestErr, req |-> NoReq]
    ELSE [err |-> NilErr,
          req |-> [method |-> method, base |-> cl.base, path |-> path, body |-> body]]

\* the payload of Close
CloseRequestOpen == {<<"state", "open">>}

CloseRequest == {<<"state", "closed">>}

\* the body fields of CreateDeployRequestRequest
CreateFields == {<<"branch", "dev">>, <<"into_branch", "main">>, <<"notes", "">>}

\* the body fields of ReviewDeployRequestRequest
ReviewFields == {<<"body", "lgtm">>, <<"state", "approved">>}

(***************************************************************************)
(* The remote server.  A deploy request is absent, open, queued for        *)
(* deployment, deployed or closed; deployed and closed are terminal.       *)
(***************************************************************************)
StateOf(s) == IF s \in {"open", "queued"} THEN "open" ELSE "closed"

DeploymentStateOf(s) ==
    CASE s = "queued" -> "queued"
      [] s = "deployed" -> "complete"
      [] OTHER -> "pending"

\* the JSON object the server sends for deploy request n in lifecycle state s
DeployRequestJSON(n, s) ==
    {<<"number", n>>, <<"state", StateOf(s)>>, <<"deployment_state", DeploymentStateOf(s)>>}

ReviewJSON(fields) == fields \cup {<<"id", "r1">>}

Existing(store) == {n \in Numbers : store[n] # "absent"}

\* the deploy requests of the database in ascending number order
RECURSIVE ListJSON(_, _)
ListJSON(store, n) ==
    IF n > MaxDR THEN <<>>
    ELSE (IF store[n] # "absent" THEN <<DeployRequestJSON(n, store[n])>> ELSE <<>>)
            \o ListJSON(store, n + 1)

ValidOrg == <<"my-org">>
ValidDb == <<"my-db">>

Routes ==
    {[kind |-> "collection", n |-> 0, verb |-> <<>>]}
    \cup {[kind |-> "single", n |-> n, verb |-> <<>>] : n \in Numbers}
    \cup {[kind |-> "action", n |-> n, verb |-> v] : n \in Numbers, v \in Verbs}

RoutePath(r) ==
    CASE r.kind = "collection" -> deployRequestsAPIPath(ValidOrg, ValidDb)
      [] r.kind = "single" -> deployRequestAPIPath(ValidOrg, ValidDb, r.n)
      [] OTHER -> deployRequestActionAPIPath(ValidOrg, ValidDb, r.n, r.verb)

NoRoute == [kind |-> "none", n |-> 0, verb |-> <<>>]

RouteOf(path) ==
    IF \E r \in Routes : RoutePath(r) = path
    THEN CHOOSE r \in Routes : RoutePath(r) = path
    ELSE NoRoute

Reply(store, body) == [drs |-> store, ok |-> TRUE, body |-> body]
Refuse(store) == [drs |-> store, ok |-> FALSE, body |-> GarbageBody]

\* what the server does with a request: its new store and its answer.
\* emptyAs is how this server writes a collection with no element: as an
\* empty array, as null, by leaving the key out, or as the document null.
Server(req, store, emptyAs) ==
    LET r == RouteOf(req.path)
        m == req.method
        n == r.n
    IN
    CASE r.kind = "collection" /\ m = "GET" ->
            IF Existing(store) # {} THEN Reply(store, EnvelopeBody("array", ListJSON(store, 1)))
            ELSE IF emptyAs = "document" THEN Reply(store, NullBody)
            ELSE Reply(store, EnvelopeBody(emptyAs, <<>>))
      [] r.kind = "collection" /\ m = "POST" ->
            IF /\ Numbers \ Existing(store) # {}
               /\ Field(req.body.fields, "branch", "") # Field(req.body.fields, "into_branch", "")
            THEN LET k == CHOOSE k \in Numbers \ Existing(store) :
                            \A j \in Numbers \ Existing(store) : k <= j
                 IN Reply([store EXCEPT ![k] = "open"], ObjectBody(DeployRequestJSON(k, "open")))
            ELSE Refuse(store)
      [] r.kind = "single" /\ m = "GET" ->
            IF store[n] # "absent" THEN Reply(store, ObjectBody(DeployRequestJSON(n, store[n])))
            ELSE Refuse(store)
      [] r.kind = "single" /\ m = "PATCH" ->
            IF store[n] = "absent" THEN Refuse(store)
            ELSE LET s == IF /\ Field(req.body.fields, "state", "") = "closed"
                             /\ store[n] # "deployed"
                          THEN "closed" ELSE store[n]
                 IN Reply([store EXCEPT ![n] = s], ObjectBody(DeployRequestJSON(n, s)))
      [] r.kind = "action" /\ r.verb = DeployLit /\ m = "POST" ->
            IF store[n] = "open"
            THEN Reply([store EXCEPT ![n] = "queued"], ObjectBody(DeployRequestJSON(n, "queued")))
            ELSE Refuse(store)
      [] r.kind = "action" /\ r.verb = CancelLit /\ m = "POST" ->
            IF store[n] = "queued"
            THEN Reply([store EXCEPT ![n] = "closed"], ObjectBody(DeployRequestJSON(n, "closed")))
            ELSE Refuse(store)
      [] r.kind = "action" /\ r.verb = ReviewsLit /\ m = "POST" ->
            IF store[n] \in {"open", "queued"}
            THEN Reply(store, ObjectBody(ReviewJSON(req.body.fields)))
            ELSE Refuse(store)
      [] r.kind = "action" /\ r.verb = ReviewsLit /\ m = "GET" ->
            IF store[n] # "absent" THEN Reply(store, EnvelopeBody("array", <<>>))
            ELSE Refuse(store)
      [] OTHER -> Refuse(store)

EmptyEncodings == {"array", "null", "absent", "document"}
Faults == {"none", "transport", "garbage"}

(***************************************************************************)
(* Calls.  A call is idle, sending (its request is built and client.Do has *)
(* not answered), returned or panicked.                                    *)
(***************************************************************************)
NilResult == [nil |-> TRUE, items |-> <<>>]
Pointer(v) == [nil |-> FALSE, items |-> <<v>>]
Slice(isNil, items) == [nil |-> isNil, items |-> items]

IdleCall ==
    [pc |-> "idle", op |-> "", org |-> <<>>, db |-> <<>>, n |-> 0,
     req |-> NoReq, built |-> FALSE, doCount |-> 0,
     failed |-> "none", cause |-> NilErr, resp |-> NoResp,
     result |-> NilResult, err |-> NilErr]

NewCall(op, org, db, n) ==
    [IdleCall EXCEPT !.op = op, !.org = org, !.db = db, !.n = n]

\* return nil, err after a failed newRequest
NewRequestFailed(call, cause, err) ==
    [call EXCEPT !.pc = "returned", !.failed = "newRequest", !.cause = cause,
                 !.result = NilResult, !.err = err]

\* the request is built; the next statement is d.client.Do(ctx, req)
Sending(call, req) == [call EXCEPT !.pc = "sending", !.req = req, !.built = TRUE]

\* variants of OnDoError: call client.Do again; prefix the error
OnDoErrorRetry(call, err) ==
    [call EXCEPT !.pc = "sending", !.failed = "do", !.cause = err]

OnDoErrorWrapped(call, err) ==
    [call EXCEPT !.pc = "returned", !.failed = "do", !.cause = err,
                 !.result = NilResult, !.err = Wrap(err, HttpSendMsg)]

\* res, err := d.client.Do(ctx, req); if err != nil { return nil, err }
OnDoError(call, err) ==
    [call EXCEPT !.pc = "returned", !.failed = "do", !.cause = err,
                 !.result = NilResult, !.err = err]

\* a variant of OnDecodeError: hand back what was decoded so far, drop the error
OnDecodeErrorSwallowed(call, partial) ==
    [call EXCEPT !.pc = "returned", !.failed = "decode", !.cause = DecodeErr,
                 !.result = partial, !.err = NilErr]

\* err = json.NewDecoder(res.Body).Decode(..); if err != nil { return nil, err }
OnDecodeError(call, partial) ==
    [call EXCEPT !.pc = "returned", !.failed = "decode", !.cause = DecodeErr,
                 !.result = NilResult, !.err = DecodeErr]

\* return dr, nil
Returned(call, result) ==
    [call EXCEPT !.pc = "returned", !.result = result, !.err = NilErr]

\* deployRequests.DeployRequests through a nil pointer
Panicked(call) == [call EXCEPT !.pc = "panicked"]

SingleOps == {"Get", "Close", "Deploy", "Create", "CancelDeploy"}

\* the statements of a method after a successful client.Do
DecodeAndReturn(call, body) ==
    LET got == [call EXCEPT !.resp = body] IN
    CASE call.op \in SingleOps ->
            LET d == DecodeDeployRequest(body) IN
            IF d.ok THEN Returned(got, Pointer(d.val))
            ELSE OnDecodeError(got, Pointer(d.val))
      [] call.op = "List" ->
            LET d == DecodeList(body) IN
            IF ~d.ok THEN OnDecodeError(got, Slice(d.sliceNil, d.items))
            ELSE IF d.ptrNil THEN Panicked(got)
            ELSE Returned(got, Slice(d.sliceNil, d.items))
      [] OTHER ->
            LET d == DecodeReview(body) IN
            IF d.ok THEN Returned(got, Pointer(d.val))
            ELSE OnDecodeError(got, Pointer(d.val))

(***************************************************************************)
(* The observer of a caller: how far its calls, up to the one that has     *)
(* just returned, are into the sequence Get, Close, Get on one number, all *)
(* three successful.                                                       *)
(***************************************************************************)
NoMon == [stage |-> "none", n |-> 0]

Succeeded(call) == call.pc = "returned" /\ call.err = NilErr

Observe(m, call) ==
    CASE Succeeded(call) /\ call.op = "Get" /\ m.stage = "closed" /\ m.n = call.n ->
            [stage |-> "done", n |-> call.n]
      [] Succeeded(call) /\ call.op = "Get" -> [stage |-> "got", n |-> call.n]
      [] Succeeded(call) /\ call.op = "Close" /\ m.stage \in {"got", "done"}
                /\ m.n = call.n ->
            [stage |-> "closed", n |-> call.n]
      [] OTHER -> NoMon

\* a call that cannot continue the sequence ends it as soon as it starts
Expect(m, call) ==
    IF \/ call.op = "Close" /\ m.stage \in {"got", "done"} /\ m.n = call.n
       \/ call.op = "Get" /\ m.stage = "closed" /\ m.n = call.n
    THEN m ELSE NoMon

Track(m, call) ==
    CASE call.pc = "returned" -> Observe(m, call)
      [] call.pc = "sending" /\ call.doCount = 0 -> Expect(m, call)
      [] OTHER -> m

(***************************************************************************)
(* The operations of deployRequestsService: each builds its request and,   *)
(* when that fails, returns at once.                                       *)
(***************************************************************************)
\* a caller with no call in progress may start one
Ready(c) == calls[c].pc \in {"idle", "returned"}

\* the call of caller c moves on to next, and the caller's observer follows
Step(c, next) ==
    /\ calls' = [calls EXCEPT ![c] = next]
    /\ mon' = [mon EXCEPT ![c] = Track(mon[c], next)]

Start(c, call, r, err) ==
    /\ Ready(c)
    /\ Step(c, IF r.err # NilErr THEN NewRequestFailed(call, r.err, err)
               ELSE Sending(call, r.req))
    /\ UNCHANGED <<client, drs, pathVars, pwVars>>

Get(c, org, db, n) ==
    LET r == newRequest(client, "GET", deployRequestAPIPath(org, db, n), NoBody)
    IN Start(c, NewCall("Get", org, db, n), r, Wrap(r.err, HttpRequestMsg))

\* a variant of Close that keeps the last path in the shared client
CloseRebasing(c, org, db, n) ==
    LET r == newRequest(client, "PATCH", deployRequestAPIPath(org, db, n), JSONBody(CloseRequest))
    IN /\ Ready(c)
       /\ Step(c, IF r.err # NilErr
                  THEN NewRequestFailed(NewCall("Close", org, db, n), r.err, Wrap(r.err, HttpRequestMsg))
                  ELSE Sending(NewCall("Close", org, db, n), r.req))
       /\ client' = [client EXCEPT !.base = deployRequestAPIPath(org, db, n)]
       /\ UNCHANGED <<drs, pathVars, pwVars>>

Close(c, org, db, n) ==
    LET r == newRequest(client, "PATCH", deployRequestAPIPath(org, db, n), JSONBody(CloseRequest))
    IN Start(c, NewCall("Close", org, db, n), r, Wrap(r.err, HttpRequestMsg))

Deploy(c, org, db, n) ==
    LET path == deployRequestActionAPIPath(org, db, n, DeployLit)
        r == newRequest(client, "POST", path, JSONBody({}))
    IN Start(c, NewCall("Deploy", org, db, n), r, Wrap(r.err, HttpRequestMsg))

Create(c, org, db) ==
    LET path == deployRequestsAPIPath(org, db)
        r == newRequest(client, "POST", path, JSONBody(CreateFields))
    IN Start(c, NewCall("Create", org, db, 0), r, r.err)

CancelDeploy(c, org, db, n) ==
    LET path == deployRequestActionAPIPath(org, db, n, CancelLit)
        r == newRequest(client, "POST", path, JSONBody({}))
    IN Start(c, NewCall("CancelDeploy", org, db, n), r, Wrap(r.err, HttpRequestMsg))

List(c, org, db) ==
    LET r == newRequest(client, "GET", deployRequestsAPIPath(org, db), NoBody)
    IN Start(c, NewCall("List", org, db, 0), r, Wrap(r.err, HttpRequestMsg))

CreateReview(c, org, db, n) ==
    LET r == newRequest(client, "GET", deployRequestActionAPIPath(org, db, n, ReviewsLit),
                        JSONBody(ReviewFields))
    IN Start(c, NewCall("CreateReview", org, db, n), r, Wrap(r.err, HttpRequestMsg))

\* the ways the server may write the collection a List asks for
Encodings(call, store) ==
    IF call.op = "List" /\ Existing(store) = {} THEN EmptyEncodings ELSE {"array"}

\* d.client.Do(ctx, req) and the rest of the method.  The exchange fails in
\* transport, is refused by the server, or brings a body back.
Do(c) ==
    /\ calls[c].pc = "sending"
    /\ \E fault \in Faults, emptyAs \in Encodings(calls[c], drs) :
         LET sent == [calls[c] EXCEPT !.doCount = @ + 1]
             out == Server(sent.req, drs, emptyAs)
         IN IF fault = "transport"
            THEN /\ Step(c, OnDoError(sent, TransportErr))
                 /\ drs' = drs
            ELSE /\ drs' = out.drs
                 /\ Step(c, IF ~out.ok THEN OnDoError(sent, APIErr)
                            ELSE DecodeAndReturn(sent,
                                    IF fault = "garbage" THEN GarbageBody ELSE out.body))
    /\ UNCHANGED <<client, pathVars, pwVars>>

\* the server carries out a queued deployment
ServerProgress(n) ==
    /\ drs[n] = "queued"
    /\ drs' = [drs EXCEPT ![n] = "deployed"]
    /\ UNCHANGED <<client, calls, mon, pathVars, pwVars>>

(***************************************************************************)
(* The path builders applied to drawn inputs.                              *)
(***************************************************************************)
NoPaths == [done |-> FALSE, collection |-> <<>>, single |-> <<>>, action |-> <<>>]
NoInput == [org |-> <<>>, db |-> <<>>, number |-> 0, verb |-> <<>>]

BuildPaths ==
    /\ ~pout.done
    /\ pout' = [done |-> TRUE,
                collection |-> deployRequestsAPIPath(pin.org, pin.db),
                single |-> deployRequestAPIPath(pin.org, pin.db, pin.number),
                action |-> deployRequestActionAPIPath(pin.org, pin.db, pin.number, pin.verb)]
    /\ UNCHANGED <<pin, mainVars, pwVars>>

(***************************************************************************)
(* Branch passwords: the answers of the server and the client's decoding.  *)
(***************************************************************************)
Secrets == {"plain-text-password", "other-password"}

\* the server's answer to a create: the record with its plain_text
PasswordCreateJSON(id, secret) ==
    {<<"id", id>>, <<"username", id>>, <<"role", "writer">>,
     <<"plain_text", secret>>, <<"display_name", id>>}

\* a variant of PasswordGetJSON that repeats a secret
PasswordGetJSONLeaky(id) ==
    {<<"id", id>>, <<"username", id>>, <<"role", "writer">>,
     <<"plain_text", "plain-text-password">>, <<"display_name", id>>}

\* the server's answer to a get: no plain_text key
PasswordGetJSON(id) ==
    {<<"id", id>>, <<"username", id>>, <<"role", "writer">>, <<"display_name", id>>}

\* one element of the server's answer to a list
PasswordListJSON(id) == {<<"id", id>>, <<"display_name", id>>}

\* decoding into DatabaseBranchPassword
PasswordOf(o) ==
    [Name |-> Field(o, "display_name", 0),
     PublicID |-> Field(o, "id", 0),
     UserName |-> Field(o, "username", 0),
     Role |-> Field(o, "role", ""),
     PlainText |-> Field(o, "plain_text", "")]

RECURSIVE PasswordsJSON(_, _)
PasswordsJSON(store, id) ==
    IF id > MaxPw THEN <<>>
    ELSE (IF store[id] # "absent" THEN <<PasswordListJSON(id)>> ELSE <<>>)
            \o PasswordsJSON(store, id + 1)

\* how often each password's plaintext has reached a caller (counted to 2)
Revealed(reveals, items) ==
    [id \in PwIds |->
        IF \E k \in 1..Len(items) : items[k].PublicID = id /\ items[k].PlainText # ""
        THEN (IF reveals[id] < 2 THEN reveals[id] + 1 ELSE 2)
        ELSE reveals[id]]

NoPwResult == [op |-> "", id |-> 0, items |-> <<>>]

PasswordsCreate(id, secret) ==
    /\ pwStore[id] = "absent"
    /\ pwStore' = [pwStore EXCEPT ![id] = secret]
    /\ LET items == <<PasswordOf(PasswordCreateJSON(id, secret))>>
       IN /\ pwLast' = [op |-> "Create", id |-> id, items |-> items]
          /\ pwReveals' = Revealed(pwReveals, items)
    /\ UNCHANGED <<mainVars, pathVars>>

PasswordsGet(id) ==
    /\ pwStore[id] # "absent"
    /\ LET items == <<PasswordOf(PasswordGetJSON(id))>>
       IN /\ pwLast' = [op |-> "Get", id |-> id, items |-> items]
          /\ pwReveals' = Revealed(pwReveals, items)
    /\ UNCHANGED <<pwStore, mainVars, pathVars>>

PasswordsList ==
    /\ LET json == PasswordsJSON(pwStore, 1)
           items == [k \in 1..Len(json) |-> PasswordOf(json[k])]
       IN /\ pwLast' = [op |-> "List", id |-> 0, items |-> items]
          /\ pwReveals' = Revealed(pwReveals, items)
    /\ UNCHANGED <<pwStore, mainVars, pathVars>>

(***************************************************************************)
(* Specifications.                                                         *)
(***************************************************************************)
MainInit ==
    /\ client = NewClient
    /\ calls = [c \in Callers |-> IdleCall]
    /\ drs = [n \in Numbers |-> "absent"]
    /\ mon = [c \in Callers |-> NoMon]

PathIdle == pin = NoInput /\ pout = NoPaths

PathInit ==
    /\ pin \in [org : PathOrgs, db : PathDbs, number : 0..MaxNumber, verb : Verbs]
    /\ pout = NoPaths

PwInit ==
    /\ pwStore = [id \in PwIds |-> "absent"]
    /\ pwLast = NoPwResult
    /\ pwReveals = [id \in PwIds |-> 0]

Init == MainInit /\ PathIdle /\ PwInit

Next ==
    \/ \E c \in Callers, org \in Orgs, db \in Dbs, n \in Numbers : Get(c, org, db, n)
    \/ \E c \in Callers, org \in Orgs, db \in Dbs, n \in Numbers : Close(c, org, db, n)
    \/ \E c \in Callers, org \in Orgs, db \in Dbs, n \in Numbers : Deploy(c, org, db, n)
    \/ \E c \in Callers, org \in Orgs, db \in Dbs : Create(c, org, db)
    \/ \E c \in Callers, org \in Orgs, db \in Dbs, n \in Numbers : CancelDeploy(c, org, db, n)
    \/ \E c \in Callers, org \in Orgs, db \in Dbs : List(c, org, db)
    \/ \E c \in Callers, org \in Orgs, db \in Dbs, n \in Numbers : CreateReview(c, org, db, n)
    \/ \E c \in Callers : Do(c)
    \/ \E n \in Numbers : ServerProgress(n)

Spec == Init /\ [][Next]_vars

PathSpecInit == MainInit /\ PathInit /\ PwInit

PathSpec == PathSpecInit /\ [][BuildPaths]_vars

PwNext ==
    \/ \E id \in PwIds, secret \in Secrets : PasswordsCreate(id, secret)
    \/ \E id \in PwIds : PasswordsGet(id)
    \/ PasswordsList

PwSpec == Init /\ [][PwNext]_vars

(***************************************************************************)
(* Properties.                                                             *)
(***************************************************************************)
DigitSet == {Digits[i] : i \in 1..10}
DigitValue(ch) == CHOOSE d \in 0..9 : Digits[d + 1] = ch

RECURSIVE DecimalValue(_)
DecimalValue(s) ==
    IF Len(s) = 0 THEN 0
    ELSE 10 * DecimalValue(SubSeq(s, 1, Len(s) - 1)) + DigitValue(s[Len(s)])

\* s is the decimal numeral of n: digits only, no leading zero, value n
IsDecimalOf(s, n) ==
    /\ Len(s) >= 1
    /\ \A i \in 1..Len(s) : s[i] \in DigitSet
    /\ Len(s) > 1 => s[1] # "0"
    /\ DecimalValue(s) = n

Finished(call) == call.pc \in {"returned", "panicked"}

\* C1: the action path is the single-resource path, "/" and the verb; the
\* single-resource path is the collection path, "/" and the decimal numeral
\* of the number.
C1_PathsCompose ==
    pout.done =>
        LET k == Len(pout.collection) IN
        /\ pout.action = pout.single \o <<"/">> \o pin.verb
        /\ Len(pout.single) > k + 1
        /\ SubSeq(pout.single, 1, k) = pout.collection
        /\ pout.single[k + 1] = "/"
        /\ IsDecimalOf(SubSeq(pout.single, k + 2, Len(pout.single)), pin.number)

C1_Witness == pout.done /\ pin.number >= 10 /\ pin.verb = CancelLit

\* C2: a call whose request was built has performed exactly one exchange
\* when it ends, however the exchange and the decoding went, and no call
\* ever performs a second one.
C2_OneExchange ==
    \A c \in Callers :
        /\ calls[c].doCount <= 1
        /\ Finished(calls[c]) /\ calls[c].built => calls[c].doCount = 1

C2_Witness ==
    \E c \in Callers :
        /\ calls[c].pc = "returned" /\ calls[c].built
        /\ calls[c].failed = "do" /\ calls[c].doCount = 1

\* C3: Close sends PATCH to the single-resource path with the body
\* state=closed, whatever the caller passed; and when a caller's Get, Close
\* and Get of one number all succeed, the last Get returns state "closed".
C3_GetCloseGet ==
    \A c \in Callers :
        /\ calls[c].op = "Close" /\ calls[c].built =>
                /\ calls[c].req.method = "PATCH"
                /\ calls[c].req.path =
                        deployRequestsAPIPath(calls[c].org, calls[c].db)
                            \o <<"/">> \o FormatUint(calls[c].n)
                /\ calls[c].req.body = [present |-> TRUE, fields |-> {<<"state", "closed">>}]
        /\ mon[c].stage = "done" /\ Succeeded(calls[c]) /\ calls[c].op = "Get" =>
                calls[c].result.items[1].State = "closed"

C3_Witness ==
    \E c \in Callers :
        /\ mon[c].stage = "done" /\ Succeeded(calls[c])
        /\ calls[c].op = "Get" /\ calls[c].n = mon[c].n

\* the exchange of a List succeeded and its response holds no deploy request
EmptyListResponse(call) ==
    /\ call.op = "List" /\ Finished(call)
    /\ call.doCount = 1 /\ call.failed = "none"
    /\ call.resp.shape \in {"envelope", "object", "null"} /\ call.resp.items = <<>>

\* C4: a List whose successful response holds no deploy request returns a
\* sequence that is not nil and has length zero, and a nil error.
C4_EmptyListNotNil ==
    \A c \in Callers :
        EmptyListResponse(calls[c]) =>
            /\ calls[c].pc = "returned"
            /\ calls[c].err = NilErr
            /\ ~calls[c].result.nil
            /\ Len(calls[c].result.items) = 0

C7_TransportErrorPrefixed ==
    \A c \in Callers :
        calls[c].pc = "returned" /\ calls[c].failed = "do"
                /\ calls[c].cause.kind = "transport" =>
            calls[c].err.wraps # <<>>

\* C7 as amended: the error of a failed exchange reaches the caller exactly
\* as client.Do gave it, with no prefix added.
C7_TransportErrorAsIs ==
    \A c \in Callers :
        calls[c].pc = "returned" /\ calls[c].failed = "do" =>
            /\ calls[c].err = calls[c].cause
            /\ calls[c].err.wraps = <<>>

C7_Witness ==
    \E c \in Callers :
        /\ calls[c].pc = "returned" /\ calls[c].failed = "do"
        /\ calls[c].cause.kind = "transport"

\* the verb that matches the meaning of an operation
MeantMethod(op) ==
    CASE op \in {"Get", "List"} -> "GET"
      [] op = "Close" -> "PATCH"
      [] OTHER -> "POST"

\* C8: every request is sent with the verb that matches its operation: GET
\* for Get and List, PATCH for Close, POST for Create, Deploy, CancelDeploy
\* and CreateReview.
C8_VerbsMatch ==
    \A c \in Callers :
        calls[c].built => calls[c].req.method = MeantMethod(calls[c].op)

\* C9: a call whose request could not be built returns without any
\* exchange, and its error carries the prefix "error creating http request".
C9_NewRequestFailure ==
    \A c \in Callers :
        calls[c].pc = "returned" /\ calls[c].failed = "newRequest" =>
            /\ calls[c].doCount = 0
            /\ calls[c].err.kind = "newRequest"
            /\ calls[c].err.wraps = <<"error creating http request">>

SameCall(a, b) == a.op # "" /\ a.op = b.op /\ a.org = b.org /\ a.db = b.db /\ a.n = b.n

\* C10: the client stays as it was constructed, every request is resolved
\* against that configuration, and two calls with the same arguments send
\* the same request and, given the same answer, return the same outcome.
C10_CallsIndependent ==
    /\ client = NewClient
    /\ \A c \in Callers : calls[c].built => calls[c].req.base = NewClient.base
    /\ \A a, b \in Callers :
            SameCall(calls[a], calls[b]) =>
                /\ calls[a].built = calls[b].built
                /\ calls[a].built => calls[a].req = calls[b].req
                /\ (/\ Finished(calls[a]) /\ Finished(calls[b])
                    /\ calls[a].failed = calls[b].failed
                    /\ calls[a].cause = calls[b].cause
                    /\ calls[a].resp = calls[b].resp) =>
                        /\ calls[a].pc = calls[b].pc
                        /\ calls[a].result = calls[b].result
                        /\ calls[a].err = calls[b].err

C10_Witness ==
    \E a, b \in Callers :
        /\ a # b /\ SameCall(calls[a], calls[b])
        /\ calls[a].pc = "returned" /\ calls[a].failed = "do"
        /\ Succeeded(calls[b]) /\ calls[b].op = "Close"
        /\ calls[a].req = calls[b].req

====
